---- MODULE Spec2Model ----
(***************************************************************************)
(* pack.py / unpack.py of nvictor/1fa: pack_files concatenates the         *)
(* matching files of a directory into one archive with "// FILE: <name>"   *)
(* marker lines, unpack_files splits such an archive back into files.      *)
(*                                                                         *)
(* Text is a sequence of one-character strings.  Files on disk hold raw    *)
(* text (it may hold carriage returns); Python's text-mode read applies    *)
(* universal-newline translation, which ReadText models.                   *)
(***************************************************************************)
EXTENDS Naturals, Sequences, FiniteSets

NL == "\n"
CR == "\r"

\* ------------------------------------------------------------------ bounds

\* A source directory of the model holds f files whose contents are built
\* from p pieces in total, with f + p <= MaxSize.
MaxSize == 5

\* ------------------------------------------------------- program constants

\* The literal the packer writes before a name and the unpacker searches for.
MarkerPrefix == <<"/", "/", " ", "F", "I", "L", "E", ":", " ">>

\* The four glob patterns "*.swift", "*.plist", "*.json", "*.entitlements".
Extensions ==
    << <<".", "s", "w", "i", "f", "t">>,
       <<".", "p", "l", "i", "s", "t">>,
       <<".", "j", "s", "o", "n">>,
       <<".", "e", "n", "t", "i", "t", "l", "e", "m", "e", "n", "t", "s">> >>

\* ------------------------------------------------------------ the inputs

SourceDir == <<"s">>
OutputDir == <<"o">>

NameSet ==
    { <<"A", ".", "s", "w", "i", "f", "t">>,
      <<"a", ".", "p", "l", "i", "s", "t">>,
      <<"b", ".", "j", "s", "o", "n">>,
      <<"B", ".", "e", "n", "t", "i", "t", "l", "e", "m", "e", "n", "t", "s">>,
      <<"a", NL, "b", ".", "j", "s", "o", "n">>,
      <<"n", ".", "t", "x", "t">> }

\* The text "// FILE: a": a marker of the name a once a line feed follows.
MarkerA == MarkerPrefix \o <<"a">>

\* What file contents are built from: a letter, a line feed, a carriage
\* return, and the text "// FILE: a".
Pieces == { <<"a">>, <<NL>>, <<CR>>, MarkerA }

\* A file that cannot be read as text: a directory whose name matches, a file
\* without read permission, bytes that are not valid in the encoding.
\* Neither is a text: a text is made of one-character strings.
Unreadable == <<"unreadable">>
Absent == <<"absent">>

RECURSIVE TextsOfSize(_)
TextsOfSize(n) ==
    IF n = 0 THEN { <<>> }
    ELSE { t \o p : t \in TextsOfSize(n - 1), p \in Pieces }

\* The texts of exactly k pieces, for every k a directory may use.
Texts == [k \in 0..MaxSize |-> TextsOfSize(k)]

\* What a file of the directory may hold within a budget, with its cost: one
\* for the file and one for each piece of its text.
FileOptions(budget) ==
    IF budget = 0 THEN {}
    ELSE { <<1, Unreadable>> } \cup
         UNION { { <<k + 1, t>> : t \in Texts[k] } : k \in 0..(budget - 1) }


\* Archives that did not come from this run of the packer.
OldArchives ==
    { <<"a">>,                                          \* no marker
      MarkerA \o <<NL, "a", NL>> \o MarkerA \o <<NL>>,   \* the name a twice
      MarkerPrefix \o <<NL, "a">>,                       \* an empty name
      MarkerPrefix \o <<"/", "a", NL, "a">>,             \* an absolute name
      <<"a", NL>> \o MarkerA }                           \* no line terminator

\* --------------------------------------------------------------- helpers

Code(c) ==
    CASE c = NL -> 10 [] c = CR -> 13 [] c = " " -> 32 [] c = "." -> 46
      [] c = "/" -> 47 [] c = ":" -> 58 [] c = "A" -> 65 [] c = "B" -> 66
      [] c = "E" -> 69 [] c = "F" -> 70 [] c = "I" -> 73 [] c = "L" -> 76
      [] c = "a" -> 97 [] c = "b" -> 98 [] c = "e" -> 101 [] c = "f" -> 102
      [] c = "i" -> 105 [] c = "j" -> 106 [] c = "l" -> 108 [] c = "m" -> 109
      [] c = "n" -> 110 [] c = "o" -> 111 [] c = "p" -> 112 [] c = "s" -> 115
      [] c = "t" -> 116 [] c = "w" -> 119 [] c = "x" -> 120

RECURSIVE StrLess(_, _)
\* Python's < on str: by code point, a proper prefix first.
StrLess(a, b) ==
    IF b = <<>> THEN FALSE
    ELSE IF a = <<>> THEN TRUE
    ELSE IF a[1] # b[1] THEN Code(a[1]) < Code(b[1])
    ELSE StrLess(Tail(a), Tail(b))

RECURSIVE Insert(_, _)
Insert(x, s) ==
    IF s = <<>> THEN <<x>>
    ELSE IF StrLess(x, s[1]) THEN <<x>> \o s
    ELSE <<s[1]>> \o Insert(x, Tail(s))

\* The list as the globs returned it, never sorted.
SortedNot(s) == s

RECURSIVE Sorted(_)
\* sorted(list): ascending, stable.
Sorted(s) == IF s = <<>> THEN <<>> ELSE Insert(s[Len(s)], Sorted(SubSeq(s, 1, Len(s) - 1)))

EndsWith(s, suf) ==
    /\ Len(s) >= Len(suf)
    /\ SubSeq(s, Len(s) - Len(suf) + 1, Len(s)) = suf

\* glob's "*<ext>" on a name of the directory: the name ends with ext, and a
\* name starting with a dot is hidden from a pattern that starts with "*".
GlobMatch(name, ext) == name # <<>> /\ name[1] # "." /\ EndsWith(name, ext)

\* os.path.join on POSIX.
PathJoin(a, b) ==
    IF b # <<>> /\ b[1] = "/" THEN b
    ELSE IF a = <<>> \/ a[Len(a)] = "/" THEN a \o b
    ELSE a \o <<"/">> \o b

LastSlash(p) ==
    LET S == { x \in 1..Len(p) : p[x] = "/" }
    IN IF S = {} THEN 0 ELSE CHOOSE x \in S : \A y \in S : y <= x

\* os.path.basename on POSIX.
Basename(p) == SubSeq(p, LastSlash(p) + 1, Len(p))

\* The directory part of a path, as open() resolves it.
Dirname(p) == SubSeq(p, 1, LastSlash(p) - 1)

\* file.read() in text mode with the default newline=None: "\r\n" and a lone
\* "\r" both arrive as "\n".  A line feed right after a carriage return is
\* dropped, and every carriage return becomes a line feed.
ReadText(raw) ==
    LET tagged == [x \in 1..Len(raw) |-> <<raw[x], x > 1 /\ raw[x - 1] = CR>>]
        Stays(c) == ~(c[1] = NL /\ c[2])
        kept == SelectSeq(tagged, Stays)
    IN [x \in 1..Len(kept) |-> IF kept[x][1] = CR THEN NL ELSE kept[x][1]]

\* f"// FILE: {filename}\n"
MarkerLine(filename) == MarkerPrefix \o filename \o <<NL>>

\* The permutations of a set, as sequences: the orders glob may return.
RECURSIVE Orders(_)
Orders(S) ==
    IF S = {} THEN { <<>> }
    ELSE UNION { { <<x>> \o t : t \in Orders(S \ {x}) } : x \in S }

PrefixAt(text, s) ==
    /\ s + Len(MarkerPrefix) - 1 <= Len(text)
    /\ SubSeq(text, s, s + Len(MarkerPrefix) - 1) = MarkerPrefix

\* The first line feed of text at or after position p, 0 when there is none.
NextNL(text, p) ==
    LET S == { x \in p..Len(text) : text[x] = NL }
    IN IF S = {} THEN 0 ELSE CHOOSE x \in S : \A y \in S : x <= y

RECURSIVE FindFrom(_, _)
\* re.finditer(r"// FILE: (.*)\n", content) from position p: the leftmost
\* occurrence of the prefix that a line feed follows; (.*) takes everything up
\* to the first line feed; the search resumes after the match.  start is the
\* match's first position, end the position after its last.
FindFrom(text, p) ==
    LET S == { s \in p..Len(text) :
                 PrefixAt(text, s) /\ NextNL(text, s + Len(MarkerPrefix)) # 0 }
    IN IF S = {} THEN <<>>
       ELSE LET s == CHOOSE x \in S : \A y \in S : x <= y
                nl == NextNL(text, s + Len(MarkerPrefix))
            IN << [start |-> s, end |-> nl + 1,
                   name |-> SubSeq(text, s + Len(MarkerPrefix), nl - 1)] >>
               \o FindFrom(text, nl + 1)

FindMarkers(text) == FindFrom(text, 1)

\* The positions of s that hold something else than a line feed.
NotNL(s) == { x \in 1..Len(s) : s[x] # NL }

First(S) == CHOOSE x \in S : \A y \in S : x <= y
Last(S) == CHOOSE x \in S : \A y \in S : y <= x

\* str.lstrip("\n")
LStrip(s) == IF NotNL(s) = {} THEN <<>> ELSE SubSeq(s, First(NotNL(s)), Len(s))

\* str.rstrip("\n")
RStrip(s) == IF NotNL(s) = {} THEN <<>> ELSE SubSeq(s, 1, Last(NotNL(s)))

\* str.strip("\n")
StripNL(s) == RStrip(LStrip(s))

\* ----------------------------------------------------------------- state

VARIABLES
    srcKind,      \* what source_dir is: "dir", "file" or "missing"
    srcDir,       \* the files of source_dir: name -> raw text or Unreadable
    outputFile,   \* the archive file: Absent or its text
    packPc,       \* "idle", "writing", "returned", "done", "failed"
    all_files,    \* pack_files: the sorted paths
    i,            \* pack_files: files written so far
    entryPos,     \* where pack_files wrote each entry in the archive
    packMsg,      \* what pack_files printed: <<kind, count>>
    unpackPc,     \* "idle", "writing", "returned", "done", "failed"
    content,      \* unpack_files: the archive as read
    markers,      \* unpack_files: the matches
    file_count,   \* unpack_files: entries written so far
    fs,           \* the files unpack_files created: path -> text
    writes,       \* the writes of unpack_files, in order
    unpackMsg     \* what unpack_files printed last: <<kind, count>>

vars == << srcKind, srcDir, outputFile, packPc, all_files, i, entryPos, packMsg,
           unpackPc, content, markers, file_count, fs, writes, unpackMsg >>

packVars == << packPc, all_files, i, entryPos, packMsg >>
unpackVars == << unpackPc, content, markers, file_count, fs, writes, unpackMsg >>

NoFiles == [x \in {} |-> <<>>]

RECURSIVE InitDir(_, _, _)
\* srcDir is dir extended over the names of S, each name absent or holding a
\* file, within the budget.
InitDir(S, budget, dir) ==
    IF S = {} THEN srcDir = dir
    ELSE LET n == CHOOSE x \in S : TRUE
         IN \/ InitDir(S \ {n}, budget, dir)
            \/ \E o \in FileOptions(budget) :
                 InitDir(S \ {n}, budget - o[1],
                         [x \in DOMAIN dir \cup {n} |-> IF x = n THEN o[2] ELSE dir[x]])

Init ==
    /\ \/ /\ srcKind = "dir"
          /\ InitDir(NameSet, MaxSize, NoFiles)
          /\ outputFile \in { Absent, <<"a">> }
       \/ /\ srcKind \in { "file", "missing" }
          /\ srcDir = NoFiles
          /\ outputFile \in { Absent } \cup OldArchives
    /\ packPc = "idle"
    /\ all_files = <<>>
    /\ i = 0
    /\ entryPos = <<>>
    /\ packMsg = <<"none", 0>>
    /\ unpackPc = "idle"
    /\ content = <<>>
    /\ markers = <<>>
    /\ file_count = 0
    /\ fs = NoFiles
    /\ writes = <<>>
    /\ unpackMsg = <<"none", 0>>

\* ------------------------------------------------------------- pack_files

\* glob.glob(os.path.join(source_dir, "*" + ext)): the matching paths.
Glob(ext) == { PathJoin(SourceDir, n) : n \in { x \in DOMAIN srcDir : GlobMatch(x, ext) } }

\* The output file opened before the checks instead of after them.
OutputOpenedFirst(found) == <<>>

\* Lines 12-28, the output file: pack_files returns before it opens the file
\* when source_dir is no directory or nothing matched, and open(output_file,
\* "w") leaves an empty file otherwise.
OutputAfterStart(found) ==
    IF srcKind = "dir" /\ found # <<>> THEN <<>> ELSE outputFile

\* Lines 12-28: the checks, the four globs, the sort, and the open that
\* truncates the output file.
PackStart ==
    /\ packPc = "idle"
    /\ unpackPc = "idle"
    /\ UNCHANGED << srcKind, srcDir, unpackVars, i, entryPos >>
    /\ IF srcKind # "dir"
       THEN /\ packPc' = "returned"
            /\ packMsg' = <<"error", 0>>
            /\ outputFile' = OutputAfterStart(<<>>)
            /\ UNCHANGED all_files
       ELSE \E swift_files \in Orders(Glob(Extensions[1])),
               plist_files \in Orders(Glob(Extensions[2])),
               json_files \in Orders(Glob(Extensions[3])),
               entitlements_files \in Orders(Glob(Extensions[4])) :
              LET found == Sorted(swift_files \o plist_files \o json_files
                                  \o entitlements_files)
              IN /\ outputFile' = OutputAfterStart(found)
                 /\ IF found = <<>>
                    THEN /\ packPc' = "returned"
                         /\ packMsg' = <<"nofiles", 0>>
                         /\ UNCHANGED all_files
                    ELSE /\ all_files' = found
                         /\ packPc' = "writing"
                         /\ UNCHANGED packMsg

\* A variant of the loop body that catches the read error and goes on to the
\* next file.
PackFileSkipping ==
    /\ packPc = "writing"
    /\ i < Len(all_files)
    /\ UNCHANGED << srcKind, srcDir, unpackVars, all_files, packMsg, packPc >>
    /\ LET filepath == all_files[i + 1]
           filename == Basename(filepath)
           w1 == outputFile \o MarkerLine(filename)
           raw == srcDir[filename]
           w2 == IF raw = Unreadable THEN w1 ELSE w1 \o ReadText(raw)
           w3 == IF i < Len(all_files) - 1 THEN w2 \o <<NL>> ELSE w2
       IN /\ outputFile' = w3
          /\ i' = i + 1
          /\ entryPos' = Append(entryPos,
                [marker |-> Len(outputFile) + 1, body |-> Len(w1) + 1,
                 bodyEnd |-> Len(w2) + 1, next |-> Len(w3) + 1])

\* Lines 29-35: one turn of the loop.  The marker is written before the file
\* is opened; a failed open or read raises out of pack_files, and the with
\* statement closes the archive with what was written so far.  entryPos
\* records where the turn wrote: the marker line at marker, the content in
\* body..bodyEnd-1, the separator (if any) in bodyEnd..next-1.
PackFile ==
    /\ packPc = "writing"
    /\ i < Len(all_files)
    /\ UNCHANGED << srcKind, srcDir, unpackVars, all_files, packMsg >>
    /\ LET filepath == all_files[i + 1]
           filename == Basename(filepath)
           w1 == outputFile \o MarkerLine(filename)
           raw == srcDir[filename]
       IN IF raw = Unreadable
          THEN /\ outputFile' = w1
               /\ packPc' = "failed"
               /\ entryPos' = Append(entryPos,
                     [marker |-> Len(outputFile) + 1, body |-> Len(w1) + 1,
                      bodyEnd |-> Len(w1) + 1, next |-> Len(w1) + 1])
               /\ UNCHANGED i
          ELSE LET w2 == w1 \o ReadText(raw)
                   w3 == IF i < Len(all_files) - 1 THEN w2 \o <<NL>> ELSE w2
               IN /\ outputFile' = w3
                  /\ i' = i + 1
                  /\ entryPos' = Append(entryPos,
                        [marker |-> Len(outputFile) + 1, body |-> Len(w1) + 1,
                         bodyEnd |-> Len(w2) + 1, next |-> Len(w3) + 1])
                  /\ UNCHANGED packPc

\* Line 37: the loop is over, the archive is closed, the count is printed.
PackFinish ==
    /\ packPc = "writing"
    /\ i = Len(all_files)
    /\ packPc' = "done"
    /\ packMsg' = <<"success", Len(all_files)>>
    /\ UNCHANGED << srcKind, srcDir, outputFile, unpackVars, all_files, i, entryPos >>

\* ----------------------------------------------------------- unpack_files

\* What open(path, "w") does in the freshly made output directory, which has
\* no subdirectory: "ok" or "fails".  A path that ends in "/" names a
\* directory; a path through a directory that does not exist cannot be
\* created; whether a file can be created in the root directory depends on
\* the caller's rights.
OpenOutcomes(path) ==
    IF Basename(path) = <<>> THEN { "fails" }
    ELSE IF Dirname(path) = OutputDir THEN { "ok" }
    ELSE IF Dirname(path) \in { <<>>, <<"/">> } /\ path[1] = "/" THEN { "ok", "fails" }
    ELSE { "fails" }

\* A write that leaves an existing file alone (open mode "x", or a check
\* that the path is free).
WriteFileKeeping(files, path, text) ==
    [p \in DOMAIN files \cup {path} |-> IF p \in DOMAIN files THEN files[p] ELSE text]

\* open(output_path, "w") followed by write(file_content): the file holds
\* exactly what was written, whatever it held before.
WriteFile(files, path, text) ==
    [p \in DOMAIN files \cup {path} |-> IF p = path THEN text ELSE files[p]]

\* The entry with only its trailing line feeds removed (rstrip for strip).
EntryContentUnstripped(text, ms, n) ==
    LET start_pos == ms[n].end
        end_pos == IF n + 1 <= Len(ms) THEN ms[n + 1].start ELSE Len(text) + 1
    IN RStrip(SubSeq(text, start_pos, end_pos - 1))

\* Lines 31-34: the text of entry n of the matches ms found in text.
EntryContent(text, ms, n) ==
    LET start_pos == ms[n].end
        end_pos == IF n + 1 <= Len(ms) THEN ms[n + 1].start ELSE Len(text) + 1
    IN StripNL(SubSeq(text, start_pos, end_pos - 1))

\* Lines 12-28: the check that the input exists, makedirs, the read of the
\* whole archive and the search for the markers.
UnpackStart ==
    /\ unpackPc = "idle"
    /\ packPc # "writing"
    /\ UNCHANGED << srcKind, srcDir, outputFile, packVars, file_count, fs, writes >>
    /\ IF outputFile = Absent
       THEN /\ unpackPc' = "returned"
            /\ unpackMsg' = <<"error", 0>>
            /\ UNCHANGED << content, markers >>
       ELSE LET text == ReadText(outputFile)
                found == FindMarkers(text)
            IN /\ content' = text
               /\ markers' = found
               /\ IF found = <<>>
                  THEN /\ unpackPc' = "returned"
                       /\ unpackMsg' = <<"nomarkers", 0>>
                  ELSE /\ unpackPc' = "writing"
                       /\ UNCHANGED unpackMsg

\* Lines 29-40: one turn of the loop.  A failed open raises out of
\* unpack_files; the files written before it stay.
UnpackEntry ==
    /\ unpackPc = "writing"
    /\ file_count < Len(markers)
    /\ UNCHANGED << srcKind, srcDir, outputFile, packVars, content, markers >>
    /\ LET n == file_count + 1
           filename == markers[n].name
           file_content == EntryContent(content, markers, n)
           output_path == PathJoin(OutputDir, filename)
       IN \E outcome \in OpenOutcomes(output_path) :
            IF outcome = "fails"
            THEN /\ unpackPc' = "failed"
                 /\ UNCHANGED << file_count, fs, writes, unpackMsg >>
            ELSE /\ fs' = WriteFile(fs, output_path, file_content)
                 /\ writes' = Append(writes, [path |-> output_path, text |-> file_content])
                 /\ file_count' = file_count + 1
                 /\ unpackMsg' = <<"created", file_count + 1>>
                 /\ UNCHANGED unpackPc

\* Line 42: the loop is over, the count is printed.
UnpackFinish ==
    /\ unpackPc = "writing"
    /\ file_count = Len(markers)
    /\ unpackPc' = "done"
    /\ unpackMsg' = <<"success", file_count>>
    /\ UNCHANGED << srcKind, srcDir, outputFile, packVars, content, markers,
                    file_count, fs, writes >>

Next ==
    \/ PackStart
    \/ PackFile
    \/ PackFinish
    \/ UnpackStart
    \/ UnpackEntry
    \/ UnpackFinish

Spec == Init /\ [][Next]_vars

\* ------------------------------------------------------------ the claims

\* The names pack_files matched: the files of source_dir with a supported
\* extension.
MatchedNames ==
    { n \in DOMAIN srcDir : \E e \in 1..Len(Extensions) : GlobMatch(n, Extensions[e]) }

\* The name in the marker line that turn k of the packer wrote, read back
\* from the archive.
WrittenName(k) ==
    SubSeq(outputFile, entryPos[k].marker + Len(MarkerPrefix), entryPos[k].body - 2)

\* a sorts strictly before b by code point: they agree up to a position where
\* a has ended and b has not, or where a's character has the smaller code.
CodepointBefore(a, b) ==
    \E k \in 1..Len(b) :
        /\ k <= Len(a) + 1
        /\ \A x \in 1..(k - 1) : a[x] = b[x]
        /\ \/ k = Len(a) + 1
           \/ Code(a[k]) < Code(b[k])

PackWrote == packPc \in { "writing", "done", "failed" }
UnpackEnded == unpackPc \in { "done", "failed" }

\* The path of a file named n directly inside the output directory.
InOutputDir(n) == OutputDir \o <<"/">> \o n

\* The files of the output directory are exactly those of the source
\* directory, each with the same text.
Recreated ==
    /\ DOMAIN fs = { InOutputDir(n) : n \in DOMAIN srcDir }
    /\ \A n \in DOMAIN srcDir : fs[InOutputDir(n)] = srcDir[n]

\* C1 (round-trip law): when every file of the directory has a supported
\* extension and pack_files has packed them, unpack_files on the archive
\* recreates in the fresh output directory exactly those files, each name
\* with its content character for character.
RoundTripLaw ==
    (packPc = "done" /\ UnpackEnded /\ MatchedNames = DOMAIN srcDir) => Recreated

\* C2 (order invariant): the marker names pack_files has written into the
\* archive are in strictly ascending code-point order, whatever order the
\* globs returned the files in; so no name is written twice.
OrderInvariant ==
    PackWrote =>
        \A k \in 1..Len(entryPos) : \A l \in 1..Len(entryPos) :
            k < l => CodepointBefore(WrittenName(k), WrittenName(l))

\* Three files are packed, among them A.swift and a.plist, which a
\* case-insensitive order would put the other way round.
OrderWitness ==
    /\ packPc = "done"
    /\ Len(entryPos) = 3
    /\ \E k \in 1..2 :
         /\ WrittenName(k) = <<"A", ".", "s", "w", "i", "f", "t">>
         /\ WrittenName(k + 1) \in { <<"a", ".", "p", "l", "i", "s", "t">>,
                                      <<"a", NL, "b", ".", "j", "s", "o", "n">> }

\* C3 (archive format): in the archive of n >= 2 files, the line before the
\* marker line of every entry but the first is an empty line, that empty line
\* is the only thing between the previous content and the marker, and nothing
\* follows the last entry's content.
BlankLineSeparator ==
    (packPc = "done" /\ Len(entryPos) >= 2) =>
        /\ \A k \in 2..Len(entryPos) :
              LET m == entryPos[k].marker
              IN /\ outputFile[m - 1] = NL
                 /\ outputFile[m - 2] = NL
        /\ entryPos[Len(entryPos)].bodyEnd = Len(outputFile) + 1

\* C4 (no packing): when source_dir is no directory, or no file of it matches,
\* pack_files returns normally and the output file is as it was before the
\* call: absent if it was absent, with the same text if it was there.
RefusalLeavesOutput ==
    [][ (packPc = "idle" /\ packPc' # "idle"
           /\ (srcKind # "dir" \/ MatchedNames = {}))
        => (packPc' = "returned" /\ outputFile' = outputFile) ]_vars

\* pack_files has returned without packing and the output file that was there
\* before is still there.
RefusalWitness ==
    /\ packPc = "returned"
    /\ outputFile # Absent
    /\ unpackPc = "idle"

\* Position p of the archive lies in the span of entry x of the unpacker and
\* has a character that is no line feed on each side of it within that span:
\* it survives the strip.
KeptInEntry(p, x) ==
    LET from == markers[x].end
        to == IF x + 1 <= Len(markers) THEN markers[x + 1].start ELSE Len(content) + 1
    IN /\ from <= p /\ p < to
       /\ \E u \in from..(p - 1) : content[u] # NL
       /\ \E v \in (p + 1)..(to - 1) : content[v] # NL

\* The content of every file packed so far stands in the archive as the file
\* holds it.
PackedVerbatim ==
    \A k \in 1..i :
        SubSeq(outputFile, entryPos[k].body, entryPos[k].bodyEnd - 1)
            = srcDir[WrittenName(k)]

\* No separator that pack_files wrote is part of an extracted content.
SeparatorsDropped ==
    (packPc = "done" /\ unpackPc # "idle") =>
        \A k \in 1..Len(entryPos) :
            \A p \in entryPos[k].bodyEnd..(entryPos[k].next - 1) :
                \A x \in 1..Len(markers) : ~KeptInEntry(p, x)

\* C5 (boundary stripping): pack_files copies each file's content into the
\* archive verbatim, leading and trailing blank lines included, and the
\* separator it writes between two entries is in no content that
\* unpack_files extracts.
BoundaryStripping ==
    /\ PackWrote => PackedVerbatim
    /\ SeparatorsDropped

\* t is what is left of the span of entry n when the line feeds at its two
\* ends are taken away: it lies in the span at a..b, only line feeds lie
\* before a and after b, and it neither starts nor ends with a line feed.
IsEntryText(n, t) ==
    LET from == markers[n].end
        to == IF n + 1 <= Len(markers) THEN markers[n + 1].start ELSE Len(content) + 1
    IN \E a \in from..to : \E b \in (a - 1)..(to - 1) :
          /\ t = SubSeq(content, a, b)
          /\ \A x \in from..(a - 1) : content[x] = NL
          /\ \A x \in (b + 1)..(to - 1) : content[x] = NL
          /\ a <= b => (content[a] # NL /\ content[b] # NL)

\* os.path.join(output_dir, name) with the name as the marker has it: the
\* name alone when it starts with "/", in the output directory otherwise.
JoinedVerbatim(name) ==
    IF name # <<>> /\ name[1] = "/" THEN name ELSE InOutputDir(name)

\* Write x of the unpacker is the write of marker x.
WriteOfMarker(x) ==
    /\ writes[x].path = JoinedVerbatim(markers[x].name)
    /\ IsEntryText(x, writes[x].text)

\* C6 as stated: once unpack_files has ended on an archive with k >= 1
\* markers it has written k files, the i-th for the i-th marker, and has
\* reported k.
UnpackWritesEveryMarker ==
    UnpackEnded =>
        /\ Len(writes) = Len(markers)
        /\ \A x \in 1..Len(writes) : WriteOfMarker(x)
        /\ unpackMsg = <<"success", Len(markers)>>

\* C6 (amended): unpack_files writes one file per marker in the order of the
\* markers, the i-th to output_dir joined with the i-th name verbatim and with
\* the i-th span stripped of the line feeds at its ends, until an open fails;
\* when no open fails it has written k files and reports k; when the open for
\* marker j fails it has written exactly the first j - 1 files and reports no
\* count.
UnpackWritesUntilOpenFails ==
    /\ Len(writes) = file_count
    /\ Len(writes) <= Len(markers)
    /\ \A x \in 1..Len(writes) : WriteOfMarker(x)
    /\ unpackPc = "done" =>
          /\ Len(writes) = Len(markers)
          /\ Len(markers) >= 1
          /\ unpackMsg = <<"success", Len(markers)>>
    /\ unpackPc = "failed" =>
          /\ Len(writes) < Len(markers)
          /\ unpackMsg[1] # "success"
          /\ LET name == markers[Len(writes) + 1].name
             IN name = <<>> \/ \E x \in 1..Len(name) : name[x] = "/"

\* unpack_files has ended normally on an archive of three entries, one of
\* which keeps a blank line inside its content.
UnpackWitness ==
    /\ unpackPc = "done"
    /\ Len(writes) >= 3
    /\ \E x \in 1..Len(writes) :
          \E y \in 2..(Len(writes[x].text) - 1) : writes[x].text[y] = NL

\* C7 (marker lines): every marker unpack_files found starts a line of the
\* archive: it is at the start of the text or right after a line feed.
MarkersStartLines ==
    \A x \in 1..Len(markers) :
        markers[x].start = 1 \/ content[markers[x].start - 1] = NL

\* C8 (last writer wins): pack_files writes one entry for every matched file,
\* none merged or left out; and after unpack_files has ended normally every
\* file it created holds the content of the last entry written to its path,
\* and only the paths of the entries exist.
LastWriterWins ==
    /\ packPc = "done" =>
          /\ Len(entryPos) = Cardinality(MatchedNames)
          /\ { WrittenName(k) : k \in 1..Len(entryPos) } = MatchedNames
    /\ unpackPc = "done" =>
          /\ DOMAIN fs = { JoinedVerbatim(markers[x].name) : x \in 1..Len(markers) }
          /\ \A x \in 1..Len(markers) :
                (\A y \in (x + 1)..Len(markers) : markers[y].name # markers[x].name)
                    => IsEntryText(x, fs[JoinedVerbatim(markers[x].name)])

\* unpack_files has ended normally on an archive in which two markers carry
\* the same name and their contents differ.
CollisionWitness ==
    /\ unpackPc = "done"
    /\ \E x \in 1..Len(writes) : \E y \in 1..Len(writes) :
          /\ x < y
          /\ markers[x].name = markers[y].name
          /\ writes[x].text # writes[y].text

\* C9 (fail-fast packing): every file pack_files has gone past was read; when
\* a read fails the archive ends with the marker line of that file, nothing
\* of a later file is in it, and no success is ever reported; a reported
\* success means every matched file was read.
FailFast ==
    /\ PackWrote => \A k \in 1..i : srcDir[Basename(all_files[k])] # Unreadable
    /\ packPc = "failed" =>
          /\ Len(entryPos) = i + 1
          /\ srcDir[WrittenName(i + 1)] = Unreadable
          /\ entryPos[i + 1].body = Len(outputFile) + 1
          /\ packMsg[1] # "success"
    /\ packMsg[1] = "success" =>
          /\ packPc = "done"
          /\ \A n \in MatchedNames : srcDir[n] # Unreadable

\* A read failed on a file that is not the last in sorted order, after the
\* unpacker was run on what the packer left.
FailFastWitness ==
    /\ packPc = "failed"
    /\ i >= 1
    /\ i + 1 < Len(all_files)
    /\ unpackPc = "done"

HasPrefix(t) == \E s \in 1..Len(t) : PrefixAt(t, s)

\* The files the restricted round trip speaks of: every file has a supported
\* extension, no name holds a line terminator, and no content holds
\* "// FILE: " or starts or ends with a line feed or a carriage return.
Restricted ==
    /\ MatchedNames = DOMAIN srcDir
    /\ \A n \in DOMAIN srcDir :
          /\ \A x \in 1..Len(n) : n[x] \notin { NL, CR }
          /\ ~HasPrefix(srcDir[n])
          /\ srcDir[n] # <<>> =>
                /\ srcDir[n][1] \notin { NL, CR }
                /\ srcDir[n][Len(srcDir[n])] \notin { NL, CR }

\* C10 (restricted round trip): for such files, once pack_files has packed
\* them and unpack_files has ended, the output directory holds exactly the
\* same names with identical contents, and unpack_files reports the count
\* pack_files reported.
RestrictedRoundTrip ==
    (packPc = "done" /\ UnpackEnded /\ Restricted) =>
        /\ Recreated
        /\ packMsg[1] = "success"
        /\ unpackMsg = packMsg

\* The restricted round trip for contents without a carriage return: what
\* C1, C5 and C10 come to once text-mode reading changes nothing.
NoCarriageReturn ==
    \A n \in DOMAIN srcDir :
        srcDir[n] # Unreadable => \A x \in 1..Len(srcDir[n]) : srcDir[n][x] # CR

RoundTripWithoutCR ==
    /\ (packPc = "done" /\ UnpackEnded /\ Restricted /\ NoCarriageReturn) =>
          /\ Recreated
          /\ packMsg[1] = "success"
          /\ unpackMsg = packMsg
    /\ (PackWrote /\ NoCarriageReturn) => PackedVerbatim
    /\ SeparatorsDropped
====
